---- MODULE Spec2Model ----
(***************************************************************************)
(* A model of zsh-from-source.py: the script that fetches zsh and two of   *)
(* its dependencies (ncurses, gdbm), builds each dependency into a private *)
(* prefix and builds zsh with the resulting -I/-L flags.                   *)
(*                                                                         *)
(* A path is a sequence of components; an absolute path starts with "/",   *)
(* a home-relative path with "~".  A CFLAGS/LDFLAGS string is the sequence *)
(* of the flags it holds, each flag a pair <<option, path>>.               *)
(* The file system is the set of directories that exist; it persists from  *)
(* one run of the script to the next.                                      *)
(***************************************************************************)
EXTENDS Integers, Sequences, FiniteSets, TLC

MaxRuns == 2          \* runs of the script on the same machine
MaxRC == 2            \* external commands exit with 0..MaxRC

VARIABLES
    pc,          \* position of the running script
    run,         \* number of the current run
    sources,     \* args.sources
    prefix,      \* args.prefix
    environ,     \* os.environ (CFLAGS and LDFLAGS of it)
    fs,          \* directories that exist
    cwd,         \* os.getcwd()
    cdStack,     \* prevdir of every cd(...) block that is open, innermost last
    source_dir,  \* build_zsh's source_dir
    idx,         \* position of build_zsh's loop in its tuple of names
    d,           \* build_zsh's d
    e,           \* build_zsh's e
    dep_e,       \* the e of build_gdbm / build_ncurses
    dep_prefix,  \* the prefix of build_gdbm / build_ncurses
    log,         \* the external commands this run has invoked, in order
    exc,         \* the exception that is propagating, if any
    exitCode,    \* exit status of the last finished run
    processed,   \* the names build_zsh's loop has taken up in this run
    reused,      \* the names whose directory the loop found existing
    built,       \* the prefixes build_<name> returned in this run
    failedRun,   \* history: the run in which build_<name> raised on the kept source
    recorded     \* history: the prefix build_<name> returned on the kept source

vars == <<pc, run, sources, prefix, environ, fs, cwd, cdStack, source_dir, idx, d,
          e, dep_e, dep_prefix, log, exc, exitCode, processed, reused, built,
          failedRun, recorded>>

(***************************************************************************)
(* Paths, arguments and flags                                              *)
(***************************************************************************)
DEFAULT_VERSION == <<"zsh-5.8">>

Home == <<"/", "home", "user">>
StartDir == <<"/", "work">>
TmpDir == <<"/", "tmp", "tmpwd">>
KeptSource == Home \o <<"zsh">>
Terminfo == Home \o <<".terminfo">>

NoPath == <<>>
NotGiven == [given |-> FALSE, path |-> NoPath]
Given(p) == [given |-> TRUE, path |-> p]

\* what --source may be: absent, the empty string, or a spelling of KeptSource
SourceArgs == {NotGiven, Given(NoPath), Given(<<"~", "zsh">>), Given(KeptSource)}
PrefixArgs == {NotGiven, Given(<<"/", "usr", "local">>)}

Flag(opt, path) == <<opt, path>>
NoEnv == [CFLAGS |-> <<>>, LDFLAGS |-> <<>>]
Environs == {NoEnv, [CFLAGS |-> <<Flag("-O2", NoPath)>>, LDFLAGS |-> <<Flag("-s", NoPath)>>]}

IsPrefixOf(s, t) == Len(s) <= Len(t) /\ SubSeq(t, 1, Len(s)) = s
Last(s) == s[Len(s)]
Front(s) == SubSeq(s, 1, Len(s) - 1)
IsAbs(p) == p # NoPath /\ p[1] = "/"

\* Python truthiness of an optional string argument
Truthy(a) == a.given /\ a.path # NoPath

expanduser_identity(p) == p
expanduser(p) == IF p # NoPath /\ p[1] = "~" THEN Home \o Tail(p) ELSE p

path_join(a, b) == IF IsAbs(b) THEN b ELSE a \o b

exists_never(files, p) == FALSE
path_exists(files, p) == p \in files

makedirs(files, p) == files \cup {p}

\* the directory os.chdir(p) moves to from directory c
chdir(c, p) == path_join(c, p)

cd_exit_unprotected(prevdir, current, raised) == IF raised THEN current ELSE prevdir
cd_exit(prevdir, current, raised) == prevdir

TemporaryDirectory_exit_on_success(files, wd, raised) ==
    IF raised THEN files ELSE {p \in files : ~IsPrefixOf(wd, p)}
TemporaryDirectory_exit(files, wd, raised) == {p \in files : ~IsPrefixOf(wd, p)}

check_returncode_ignored(rc) == FALSE
check_returncode(rc) == rc # 0

NoExc == [type |-> "None", returncode |-> 0]
Raised == exc.type # "None"

exit_status_swallowed(x) == 0
exit_status(x) == IF x.type = "None" THEN 0 ELSE 1

DepNamesSwapped == <<"gdbm", "ncurses">>
DepNames == <<"ncurses", "gdbm">>

TopDir(name) == IF name = "gdbm" THEN <<"gdbm-1.23">> ELSE <<"ncurses-6.2">>

add_flags_prepended(env, dir) ==
    [CFLAGS |-> <<Flag("-I", dir \o <<"include">>)>> \o env.CFLAGS,
     LDFLAGS |-> <<Flag("-L", dir \o <<"lib">>)>> \o env.LDFLAGS]
add_flags(env, dir) ==
    [CFLAGS |-> env.CFLAGS \o <<Flag("-I", dir \o <<"include">>)>>,
     LDFLAGS |-> env.LDFLAGS \o <<Flag("-L", dir \o <<"lib">>)>>]

Entry(who, cmd, args, env, rc) ==
    [who |-> who, cmd |-> cmd, args |-> args, CFLAGS |-> env.CFLAGS,
     LDFLAGS |-> env.LDFLAGS, rc |-> rc]

RCs == 0..MaxRC
Names == {DepNames[i] : i \in 1..Len(DepNames)}

Init ==
    /\ pc = "idle"
    /\ run = 0
    /\ sources = NotGiven
    /\ prefix = NotGiven
    /\ environ \in Environs
    /\ fs \in {{StartDir, Home, KeptSource}, {StartDir, Home, KeptSource, Terminfo}}
    /\ cwd = StartDir
    /\ cdStack = <<>>
    /\ source_dir = NoPath
    /\ idx = 1
    /\ d = NoPath
    /\ e = NoEnv
    /\ dep_e = NoEnv
    /\ dep_prefix = NoPath
    /\ log = <<>>
    /\ exc = NoExc
    /\ exitCode = 0
    /\ processed = <<>>
    /\ reused = {}
    /\ built = <<>>
    /\ failedRun = [n \in Names |-> 0]
    /\ recorded = [n \in Names |-> NoPath]

(***************************************************************************)
(* Steps shared by the actions                                             *)
(***************************************************************************)
Raise(type, rc) ==
    /\ exc' = [type |-> type, returncode |-> rc]
    /\ pc' = "leave"

\* history: build_<name> raised in this run, on the source that outlives the run
MarkFailed(name) ==
    failedRun' = IF source_dir = KeptSource THEN [failedRun EXCEPT ![name] = run]
                 ELSE failedRun

\* subprocess.run(cmd, env=env).check_returncode() inside build_<name>
DepRun(name, cmd, args, env, rc, next) ==
    /\ log' = Append(log, Entry(name, cmd, args, env, rc))
    /\ IF check_returncode(rc)
       THEN Raise("CalledProcessError", rc) /\ MarkFailed(name)
       ELSE pc' = next /\ UNCHANGED <<exc, failedRun>>

\* subprocess.run(cmd, env=e); if returncode != 0: check_returncode()
MainRun(cmd, args, rc, next) ==
    /\ log' = Append(log, Entry("zsh", cmd, args, e, rc))
    /\ IF check_returncode(rc)
       THEN Raise("CalledProcessError", rc)
       ELSE pc' = next /\ UNCHANGED exc

(***************************************************************************)
(* __main__ and download_zsh                                               *)
(***************************************************************************)
main ==
    /\ pc \in {"idle", "exited"}
    /\ run < MaxRuns
    /\ \E s \in SourceArgs, p \in PrefixArgs :
          /\ sources' = s
          /\ prefix' = p
          /\ source_dir' = IF Truthy(s) THEN expanduser(s.path) ELSE NoPath
          /\ pc' = IF Truthy(s) THEN "build_zsh" ELSE "download_wget"
    /\ run' = run + 1
    /\ fs' = makedirs(fs, TmpDir)
    /\ cdStack' = Append(cdStack, cwd)
    /\ cwd' = chdir(cwd, expanduser(TmpDir))
    /\ idx' = 1
    /\ d' = NoPath
    /\ e' = NoEnv
    /\ dep_e' = NoEnv
    /\ dep_prefix' = NoPath
    /\ log' = <<>>
    /\ exc' = NoExc
    /\ processed' = <<>>
    /\ reused' = {}
    /\ built' = <<>>
    /\ UNCHANGED <<environ, exitCode, failedRun, recorded>>

download_zsh_wget ==
    /\ pc = "download_wget"
    /\ \E rc \in RCs :
          /\ log' = Append(log, Entry("zsh", "wget", <<>>, environ, rc))
          /\ IF check_returncode(rc)
             THEN Raise("CalledProcessError", rc)
             ELSE pc' = "download_extract" /\ UNCHANGED exc
    /\ UNCHANGED <<run, sources, prefix, environ, fs, cwd, cdStack, source_dir, idx, d,
                   e, dep_e, dep_prefix, exitCode, processed, reused, built,
                   failedRun, recorded>>

download_zsh_extract ==
    /\ pc = "download_extract"
    /\ \E ok \in BOOLEAN :
          IF ok
          THEN /\ fs' = fs \cup {cwd \o DEFAULT_VERSION}
               /\ source_dir' = path_join(cwd, DEFAULT_VERSION)
               /\ pc' = "build_zsh"
               /\ UNCHANGED exc
          ELSE /\ Raise("TarError", 0)
               /\ UNCHANGED <<fs, source_dir>>
    /\ UNCHANGED <<run, sources, prefix, environ, cwd, cdStack, idx, d, e, dep_e,
                   dep_prefix, log, exitCode, processed, reused, built, failedRun,
                   recorded>>

(***************************************************************************)
(* build_zsh: entry and the loop over the dependencies                     *)
(***************************************************************************)
build_zsh_enter ==
    /\ pc = "build_zsh"
    /\ LET target == chdir(cwd, expanduser(source_dir)) IN
          IF target \in fs
          THEN /\ cdStack' = Append(cdStack, cwd)
               /\ cwd' = target
               /\ e' = environ
               /\ idx' = 1
               /\ pc' = "loop"
               /\ UNCHANGED exc
          ELSE /\ Raise("FileNotFoundError", 0)
               /\ UNCHANGED <<cdStack, cwd, e, idx>>
    /\ UNCHANGED <<run, sources, prefix, environ, fs, source_dir, d, dep_e, dep_prefix,
                   log, exitCode, processed, reused, built, failedRun, recorded>>

LoopName == DepNames[idx]
LoopDir == path_join(source_dir, <<LoopName>>)

build_zsh_reuse ==
    /\ pc = "loop"
    /\ idx <= Len(DepNames)
    /\ path_exists(fs, LoopDir)
    /\ d' = LoopDir
    /\ e' = add_flags(e, LoopDir)
    /\ processed' = Append(processed, LoopName)
    /\ reused' = reused \cup {LoopName}
    /\ idx' = idx + 1
    /\ UNCHANGED <<pc, run, sources, prefix, environ, fs, cwd, cdStack, source_dir,
                   dep_e, dep_prefix, log, exc, exitCode, built, failedRun, recorded>>

build_zsh_call ==
    /\ pc = "loop"
    /\ idx <= Len(DepNames)
    /\ ~path_exists(fs, LoopDir)
    /\ fs' = makedirs(fs, LoopDir)
    /\ d' = LoopDir
    /\ processed' = Append(processed, LoopName)
    /\ pc' = IF LoopName = "gdbm" THEN "gdbm_wget" ELSE "ncurses_wget"
    /\ UNCHANGED <<run, sources, prefix, environ, cwd, cdStack, source_dir, idx, e,
                   dep_e, dep_prefix, log, exc, exitCode, reused, built, failedRun,
                   recorded>>

build_zsh_loop_end ==
    /\ pc = "loop"
    /\ idx > Len(DepNames)
    /\ pc' = "main_configure"
    /\ UNCHANGED <<run, sources, prefix, environ, fs, cwd, cdStack, source_dir, idx, d,
                   e, dep_e, dep_prefix, log, exc, exitCode, processed, reused, built,
                   failedRun, recorded>>

(***************************************************************************)
(* build_gdbm and build_ncurses, one action per external step.             *)
(* The directories they change into were created by the step before.       *)
(***************************************************************************)
DepUnchanged == <<run, sources, prefix, environ, source_dir, idx, exitCode, processed,
                  reused>>

\* with cd(directory): subprocess.run(("wget", url)).check_returncode()
DepWget(name, next) ==
    /\ cdStack' = Append(cdStack, cwd)
    /\ cwd' = chdir(cwd, expanduser(d))
    /\ \E rc \in RCs : DepRun(name, "wget", <<>>, environ, rc, next)
    /\ UNCHANGED <<fs, d, e, dep_e, dep_prefix, built, recorded>>
    /\ UNCHANGED DepUnchanged

\* tar.extractall(); source_dir = tar.getmembers()[0].name
DepExtract(name, next) ==
    /\ \E ok \in BOOLEAN :
          IF ok
          THEN /\ fs' = fs \cup {cwd \o TopDir(name)}
               /\ pc' = next
               /\ UNCHANGED <<exc, failedRun>>
          ELSE /\ Raise("TarError", 0)
               /\ MarkFailed(name)
               /\ UNCHANGED fs
    /\ UNCHANGED <<cwd, cdStack, d, e, dep_e, dep_prefix, log, built, recorded>>
    /\ UNCHANGED DepUnchanged

\* with cd(source_dir): prefix = join(getcwd(), name); e = copy.copy(env);
\* e["CFLAGS"] = ...; subprocess.run(("./configure", ..., f"--prefix={prefix}"), env=e)
DepConfigure(name, cflags, options, next) ==
    LET dir == chdir(cwd, expanduser(TopDir(name)))
        pfx == path_join(dir, <<name>>)
        env == [e EXCEPT !.CFLAGS = @ \o cflags]
    IN  /\ cdStack' = Append(cdStack, cwd)
        /\ cwd' = dir
        /\ dep_prefix' = pfx
        /\ dep_e' = env
        /\ \E rc \in RCs :
              DepRun(name, "configure", options \o <<Flag("--prefix=", pfx)>>, env, rc, next)
        /\ UNCHANGED <<fs, d, e, built, recorded>>
        /\ UNCHANGED DepUnchanged

\* subprocess.run(("make", ...), env=e).check_returncode()
DepMake(name, cmd, next) ==
    /\ \E rc \in RCs : DepRun(name, cmd, <<>>, dep_e, rc, next)
    /\ UNCHANGED <<fs, cwd, cdStack, d, e, dep_e, dep_prefix, built, recorded>>
    /\ UNCHANGED DepUnchanged

\* subprocess.run(("make", "install"), env=e).check_returncode()
DepInstall(name, next) ==
    /\ \E rc \in RCs :
          /\ DepRun(name, "make install", <<>>, dep_e, rc, next)
          /\ fs' = IF rc = 0 THEN fs \cup {dep_prefix} ELSE fs
    /\ UNCHANGED <<cwd, cdStack, d, e, dep_e, dep_prefix, built, recorded>>
    /\ UNCHANGED DepUnchanged

\* return prefix, through both cd blocks; then, in build_zsh, d = the prefix and
\* the -I/-L flags of d are added to e
DepReturn(name) ==
    LET n == Len(cdStack)
        inner == cd_exit(cdStack[n], cwd, FALSE)
    IN  /\ cwd' = cd_exit(cdStack[n - 1], inner, FALSE)
        /\ cdStack' = SubSeq(cdStack, 1, n - 2)
        /\ d' = dep_prefix
        /\ e' = add_flags(e, dep_prefix)
        /\ built' = Append(built, [name |-> name, prefix |-> dep_prefix])
        /\ recorded' = IF source_dir = KeptSource
                       THEN [recorded EXCEPT ![name] = dep_prefix]
                       ELSE recorded
        /\ idx' = idx + 1
        /\ pc' = "loop"
        /\ UNCHANGED <<run, sources, prefix, environ, fs, source_dir, dep_e, dep_prefix,
                       log, exc, exitCode, processed, reused, failedRun>>

GdbmCFLAGS == <<Flag("-fcommon", NoPath), Flag("-fPIC", NoPath)>>
GdbmOptions == <<Flag("--enable-shared=no", NoPath), Flag("--enable-libgdbm-compat", NoPath)>>

build_gdbm_wget == pc = "gdbm_wget" /\ DepWget("gdbm", "gdbm_extract")
build_gdbm_extract == pc = "gdbm_extract" /\ DepExtract("gdbm", "gdbm_configure")
build_gdbm_configure ==
    pc = "gdbm_configure" /\ DepConfigure("gdbm", GdbmCFLAGS, GdbmOptions, "gdbm_make")
build_gdbm_make == pc = "gdbm_make" /\ DepMake("gdbm", "make", "gdbm_check")
build_gdbm_check == pc = "gdbm_check" /\ DepMake("gdbm", "make check", "gdbm_install")
build_gdbm_install == pc = "gdbm_install" /\ DepInstall("gdbm", "gdbm_return")
build_gdbm_return == pc = "gdbm_return" /\ DepReturn("gdbm")

NcursesCFLAGS == <<Flag("-fPIC", NoPath)>>
NcursesOptions ==
    <<Flag("--without-shared", NoPath), Flag("--without-debug", NoPath),
      Flag("--without-ada", NoPath), Flag("--without-cxx", NoPath),
      Flag("--without-cxx-binding", NoPath), Flag("--enable-widec", NoPath)>>

build_ncurses_wget == pc = "ncurses_wget" /\ DepWget("ncurses", "ncurses_extract")
build_ncurses_extract == pc = "ncurses_extract" /\ DepExtract("ncurses", "ncurses_configure")
build_ncurses_configure ==
    /\ pc = "ncurses_configure"
    /\ DepConfigure("ncurses", NcursesCFLAGS, NcursesOptions, "ncurses_make")
build_ncurses_make == pc = "ncurses_make" /\ DepMake("ncurses", "make", "ncurses_install")
build_ncurses_install == pc = "ncurses_install" /\ DepInstall("ncurses", "ncurses_terminfo")

\* if not os.path.exists(home_terminfo): shutil.copytree(<one argument>) raises
\* TypeError, copytree's dst being a required parameter
build_ncurses_terminfo ==
    /\ pc = "ncurses_terminfo"
    /\ IF path_exists(fs, Terminfo)
       THEN pc' = "ncurses_return" /\ UNCHANGED <<exc, failedRun>>
       ELSE Raise("TypeError", 0) /\ MarkFailed("ncurses")
    /\ UNCHANGED <<fs, cwd, cdStack, d, e, dep_e, dep_prefix, log, built, recorded>>
    /\ UNCHANGED DepUnchanged

build_ncurses_return == pc = "ncurses_return" /\ DepReturn("ncurses")

(***************************************************************************)
(* build_zsh: configure, make, make install of zsh itself                  *)
(***************************************************************************)
MainUnchanged == <<run, sources, prefix, environ, fs, cwd, cdStack, source_dir, idx, d,
                   e, dep_e, dep_prefix, exitCode, processed, reused, built, failedRun,
                   recorded>>

configure_cmd_line ==
    IF Truthy(prefix) THEN <<Flag("--prefix=", prefix.path)>> ELSE <<>>

build_zsh_configure ==
    /\ pc = "main_configure"
    /\ \E rc \in RCs : MainRun("configure", configure_cmd_line, rc, "main_make")
    /\ UNCHANGED MainUnchanged

build_zsh_make ==
    /\ pc = "main_make"
    /\ \E rc \in RCs : MainRun("make", <<>>, rc, "main_install")
    /\ UNCHANGED MainUnchanged

build_zsh_install ==
    /\ pc = "main_install"
    /\ \E rc \in RCs : MainRun("make install", <<>>, rc, "leave")
    /\ UNCHANGED MainUnchanged

(***************************************************************************)
(* Leaving the with blocks, by return or by a propagating exception        *)
(***************************************************************************)
\* cd's finally: os.chdir(prevdir), for the innermost open block
cd_leave ==
    /\ pc = "leave"
    /\ cdStack # <<>>
    /\ cwd' = cd_exit(Last(cdStack), cwd, Raised)
    /\ cdStack' = Front(cdStack)
    /\ UNCHANGED <<pc, run, sources, prefix, environ, fs, source_dir, idx, d, e, dep_e,
                   dep_prefix, log, exc, exitCode, processed, reused, built, failedRun,
                   recorded>>

\* TemporaryDirectory.__exit__, then the interpreter exits
main_exit ==
    /\ pc = "leave"
    /\ cdStack = <<>>
    /\ fs' = TemporaryDirectory_exit(fs, TmpDir, Raised)
    /\ exitCode' = exit_status(exc)
    /\ pc' = "exited"
    /\ UNCHANGED <<run, sources, prefix, environ, cwd, cdStack, source_dir, idx, d, e,
                   dep_e, dep_prefix, log, exc, processed, reused, built, failedRun,
                   recorded>>

Next ==
    \/ main
    \/ download_zsh_wget
    \/ download_zsh_extract
    \/ build_zsh_enter
    \/ build_zsh_reuse
    \/ build_zsh_call
    \/ build_zsh_loop_end
    \/ build_gdbm_wget
    \/ build_gdbm_extract
    \/ build_gdbm_configure
    \/ build_gdbm_make
    \/ build_gdbm_check
    \/ build_gdbm_install
    \/ build_gdbm_return
    \/ build_ncurses_wget
    \/ build_ncurses_extract
    \/ build_ncurses_configure
    \/ build_ncurses_make
    \/ build_ncurses_install
    \/ build_ncurses_terminfo
    \/ build_ncurses_return
    \/ build_zsh_configure
    \/ build_zsh_make
    \/ build_zsh_install
    \/ cd_leave
    \/ main_exit

Spec == Init /\ [][Next]_vars

(***************************************************************************)
(* Properties                                                              *)
(***************************************************************************)
Range(s) == {s[i] : i \in 1..Len(s)}
Invoked(who) == {i \in 1..Len(log) : log[i].who = who}
CmdsOf(who) ==
    LET Of(x) == x.who = who
        sel == SelectSeq(log, Of)
    IN  [i \in 1..Len(sel) |-> sel[i].cmd]
MainBuild == {i \in 1..Len(log) : log[i].who = "zsh" /\ log[i].cmd # "wget"}
StageFailed == log # <<>> /\ Last(log).rc # 0
FullSuccess ==
    /\ log # <<>>
    /\ Last(log).who = "zsh"
    /\ Last(log).cmd = "make install"
    /\ Last(log).rc = 0
IncludeOf(dir) == Flag("-I", dir \o <<"include">>)
LibOf(dir) == Flag("-L", dir \o <<"lib">>)

\* C1: an external command that exits non-zero is the last command the run
\* invokes: nothing of the same dependency, of a later dependency or of the main
\* build follows it, and the run is on its way out.
C1_StopsAtFailure ==
    \A i \in 1..Len(log) :
        log[i].rc # 0 => i = Len(log) /\ pc \in {"leave", "exited"}

C1_Witness ==
    /\ pc = "exited"
    /\ Len(log) >= 3
    /\ Last(log).who = "ncurses"
    /\ Last(log).rc # 0

\* C2 (as claimed): a dependency whose directory existed when build_zsh started
\* is neither fetched nor built, and the -I/-L flags it contributes are the
\* include/lib directories of the prefix the earlier run that built it recorded.
C2_ReusesRecordedPrefix ==
    \A n \in reused :
        (source_dir = KeptSource /\ recorded[n] # NoPath) =>
            /\ Invoked(n) = {}
            /\ IncludeOf(recorded[n]) \in Range(e.CFLAGS)
            /\ LibOf(recorded[n]) \in Range(e.LDFLAGS)

\* C3 (as claimed): a run that ends on a failed stage exits with that command's
\* non-zero exit code; a run whose every stage completed exits with 0.
C3_ExitCodePropagated ==
    pc = "exited" =>
        /\ StageFailed => exitCode # 0 /\ exitCode = Last(log).rc
        /\ FullSuccess => exitCode = 0

\* C3 (amended): a run that ends on a failed stage exits with 1, whatever the
\* failed command's exit code was; a run whose every stage completed exits with 0.
C3_ExitCodeOne ==
    pc = "exited" =>
        /\ StageFailed => exitCode = 1
        /\ FullSuccess => exitCode = 0

C3_Witness ==
    /\ pc = "exited"
    /\ StageFailed
    /\ Last(log).rc = 2
    /\ exitCode = 1

StagesInOrder ==
    /\ IsPrefixOf(CmdsOf("gdbm"), <<"wget", "configure", "make", "make check", "make install">>)
    /\ IsPrefixOf(CmdsOf("ncurses"), <<"wget", "configure", "make", "make install">>)
    /\ IsPrefixOf(SubSeq(CmdsOf("zsh"), Len(CmdsOf("zsh")) - Cardinality(MainBuild) + 1,
                         Len(CmdsOf("zsh"))),
                  <<"configure", "make", "make install">>)
    /\ MainBuild # {} => Len(processed) = 2
    /\ \A i \in MainBuild : \A n \in Names : \A j \in Invoked(n) : j < i

\* C4 (as claimed): the dependencies are taken up in one fixed order, gdbm before
\* ncurses; each runs configure, make, (gdbm only) make check, make install in
\* that order; the main configure comes after both dependencies.
C4_GdbmThenNcurses ==
    /\ IsPrefixOf(processed, <<"gdbm", "ncurses">>)
    /\ \A i \in Invoked("gdbm") : \A j \in Invoked("ncurses") : i < j
    /\ StagesInOrder

\* C4 (amended): the same, the fixed order being ncurses before gdbm.
C4_NcursesThenGdbm ==
    /\ IsPrefixOf(processed, <<"ncurses", "gdbm">>)
    /\ \A i \in Invoked("ncurses") : \A j \in Invoked("gdbm") : i < j
    /\ StagesInOrder

C4_Witness ==
    /\ Len(built) = 2
    /\ FullSuccess
    /\ Invoked("ncurses") # {}
    /\ Invoked("gdbm") # {}

\* C5: when both dependencies were built in this run and returned P1 then P2,
\* every command of the main build gets CFLAGS that starts with the inherited
\* CFLAGS and then holds -I P1/include, -I P2/include next to each other in that
\* order, and LDFLAGS likewise with -L P1/lib, -L P2/lib.
C5_FlagsInOrder ==
    Len(built) = 2 =>
        \A i \in MainBuild :
            LET cf == log[i].CFLAGS
                lf == log[i].LDFLAGS
                P1 == built[1].prefix
                P2 == built[2].prefix
            IN  /\ IsPrefixOf(environ.CFLAGS, cf)
                /\ IsPrefixOf(environ.LDFLAGS, lf)
                /\ \E k \in Len(environ.CFLAGS)..Len(cf) - 2 :
                       SubSeq(cf, k + 1, k + 2) = <<IncludeOf(P1), IncludeOf(P2)>>
                /\ \E k \in Len(environ.LDFLAGS)..Len(lf) - 2 :
                       SubSeq(lf, k + 1, k + 2) = <<LibOf(P1), LibOf(P2)>>

C5_Witness ==
    /\ Len(built) = 2
    /\ built[1].prefix # built[2].prefix
    /\ environ.CFLAGS # <<>>
    /\ FullSuccess

\* C6: when a run has ended, in success or in any failure, the temporary working
\* directory and everything under it no longer exist.
C6_TmpDirRemoved ==
    pc = "exited" => \A p \in fs : ~IsPrefixOf(TmpDir, p)

C6_Witness ==
    /\ pc = "exited"
    /\ Raised
    /\ ~Truthy(sources)
    /\ Last(log).who = "gdbm"
    /\ TmpDir \notin fs

C8_FailsOnlyForListedCauses ==
    (pc = "exited" /\ exc.type # "TarError" /\ \A i \in 1..Len(log) : log[i].rc = 0) =>
        /\ exc = NoExc
        /\ FullSuccess

\* C9: the directory of a dependency exists from the moment its build was begun,
\* so once the build of a dependency has failed on a source directory, a later
\* run on that source directory invokes no command of that dependency, takes its
\* directory as the dependency's prefix and goes on.
C9_DirectoryIsOnlyMarker ==
    \A n \in Names :
        /\ failedRun[n] # 0 => path_join(KeptSource, <<n>>) \in fs
        /\ (failedRun[n] # 0 /\ failedRun[n] < run /\ source_dir = KeptSource) =>
               /\ Invoked(n) = {}
               /\ n \in Range(processed) =>
                      /\ n \in reused
                      /\ IncludeOf(path_join(KeptSource, <<n>>)) \in Range(e.CFLAGS)

C9_Witness ==
    /\ failedRun["ncurses"] = 1
    /\ run = 2
    /\ source_dir = KeptSource
    /\ MainBuild # {}
    /\ "ncurses" \in reused

\* C10: the working directory is a function of the cd blocks that are open: with
\* none open it is the directory the script was started in, and each block left,
\* by return or by exception, puts back the directory of the block around it.
C10_CwdRestored ==
    LET n == Len(cdStack) IN
        /\ n = 0 => cwd = StartDir
        /\ n = 1 => cwd = TmpDir
        /\ n = 2 => cwd = source_dir
        /\ n = 3 => cwd = source_dir \o <<DepNames[idx]>>
        /\ n = 4 => cwd = source_dir \o <<DepNames[idx]>> \o TopDir(DepNames[idx])
        /\ pc \in {"loop", "main_configure", "main_make", "main_install"} => n = 2
        /\ pc \in {"idle", "exited"} => n = 0

C10_Witness ==
    /\ pc = "leave"
    /\ Raised
    /\ Last(log).who = "gdbm"
    /\ Last(log).cmd = "make"
    /\ Len(cdStack) = 2
    /\ cwd = source_dir

====
